---- MODULE Spec2Model ----
(***************************************************************************)
(* Model of the S4C Clic extractor (yt_dlp_plugins/extractor/s4c_clic.py). *)
(*                                                                         *)
(* Strings are sequences of one-character strings, so that the regular     *)
(* expressions of the title heuristics are modelled by what they match.    *)
(* Three specifications share the module:                                  *)
(*   SpecText    the title / filename / thumbnail heuristics,              *)
(*   SpecDate    parse_welsh_date followed by format_date,                 *)
(*   Spec        the three resolvers, the episode record builder and the   *)
(*               framework following the child references of a playlist.   *)
(***************************************************************************)
EXTENDS Integers, Sequences, FiniteSets, TLC

VARIABLES
    \* ---- title heuristics (SpecText)
    title,          \* programme_title handed to the heuristics
    mpg,            \* episode['mpg']
    thumb,          \* episode['thumbnail_url']
    textOut,        \* result pair of extract_episode_number_from_text
    chainOut,       \* result pair (episode_number, programme_title) of the chain
    tpc,            \* "start" | "text" | "chain" | "off"
    \* ---- date normalizer (SpecDate)
    welsh_date,     \* the tokens of welsh_date.split()
    tz,             \* UTC offset of the host's local time zone, in hours
    dateOut,        \* [ok, timestamp, compact]
    dpc,            \* "start" | "done" | "off"
    \* ---- resolvers and record builder (Spec)
    pending,        \* child references the framework still has to follow
    cur,            \* the reference being resolved: [ie, id, depth]
    pc,             \* position inside the running resolver
    programme_data, \* payload of full_prog_details fetched by the resolver
    series_data,    \* payload of series_details fetched by the resolver
    episode,        \* argument `episode` of _extract_episode_info (a programme id)
    programme_id,   \* argument `programme_id` of _extract_episode_info
    episode_number, \* local of _extract_episode_info
    config_data,    \* outcome of the player-configuration fetch
    regionIdx,      \* loop index of _fetch_and_validate_streaming_urls
    responses,      \* per-region streaming_urls responses seen so far
    formats,        \* local `formats` of _fetch_and_validate_streaming_urls
    result          \* what the resolver returned (or the error it raised)

textVars == <<title, mpg, thumb, textOut, chainOut, tpc>>
dateVars == <<welsh_date, dateOut, dpc>>
resVars  == <<pending, cur, pc, programme_data, series_data, episode,
              programme_id, episode_number, config_data, regionIdx,
              responses, formats, result>>
vars     == <<textVars, dateVars, tz, resVars>>

(***************************************************************************)
(* Characters and strings                                                  *)
(***************************************************************************)
\* Python's None; int() of a \d+ group is never negative
None == -1

Digits == {"0", "1", "2", "3", "4", "5", "6", "7", "8", "9"}

Letters == {"P", "e", "n", "o", "d", "E", "p", "i", "s", "D", "I", "S",
            "N", "O", "T", "a", "t", "x"}

IsDigit(c) == c \in Digits

\* \s
IsSpace(c) == c = " "

\* the class [;:,\-_\.\s]
IsSepChar(c) == c \in {";", ":", ",", "-", "_", "."} \/ IsSpace(c)

\* \w, which decides where \b holds
IsWordChar(c) == c \in Letters \/ c \in Digits \/ c = "_"

DigitVal(c) ==
    CASE c = "0" -> 0 [] c = "1" -> 1 [] c = "2" -> 2 [] c = "3" -> 3
      [] c = "4" -> 4 [] c = "5" -> 5 [] c = "6" -> 6 [] c = "7" -> 7
      [] c = "8" -> 8 [] c = "9" -> 9

\* re.IGNORECASE on the letters of "pennod" and "episode"
Lower(c) ==
    CASE c = "P" -> "p" [] c = "E" -> "e" [] c = "N" -> "n" [] c = "O" -> "o"
      [] c = "D" -> "d" [] c = "I" -> "i" [] c = "S" -> "s" [] c = "T" -> "t"
      [] OTHER -> c

LowerStr(s) == [k \in 1..Len(s) |-> Lower(s[k])]

\* int(mobj.group(1))
RECURSIVE ToInt(_)
ToInt(ds) ==
    IF ds = <<>> THEN 0
    ELSE 10 * ToInt(SubSeq(ds, 1, Len(ds) - 1)) + DigitVal(ds[Len(ds)])

\* greedy X* from position i: the first index >= i whose character is not in
\* the class (Len(s) + 1 when the run reaches the end)
DigitRunEnd(s, i) ==
    CHOOSE j \in i..(Len(s) + 1) :
        /\ \A k \in i..(j - 1) : IsDigit(s[k])
        /\ (j = Len(s) + 1 \/ ~IsDigit(s[j]))

SpaceRunEnd(s, i) ==
    CHOOSE j \in i..(Len(s) + 1) :
        /\ \A k \in i..(j - 1) : IsSpace(s[k])
        /\ (j = Len(s) + 1 \/ ~IsSpace(s[j]))

SepRunEnd(s, i) ==
    CHOOSE j \in i..(Len(s) + 1) :
        /\ \A k \in i..(j - 1) : IsSepChar(s[k])
        /\ (j = Len(s) + 1 \/ ~IsSepChar(s[j]))

\* str.strip()
Strip(s) ==
    LET nonSpace == {k \in 1..Len(s) : ~IsSpace(s[k])}
    IN  IF nonSpace = {} THEN <<>>
        ELSE LET a == CHOOSE k \in nonSpace : \A m \in nonSpace : k <= m
                 b == CHOOSE k \in nonSpace : \A m \in nonSpace : k >= m
             IN  SubSeq(s, a, b)

\* s[i:].startswith(w)
StartsWithAt(s, i, w) ==
    /\ i >= 1
    /\ i + Len(w) - 1 <= Len(s)
    /\ SubSeq(s, i, i + Len(w) - 1) = w

Pennod  == <<"P", "e", "n", "n", "o", "d">>
Episode == <<"E", "p", "i", "s", "o", "d", "e">>
pennod  == <<"p", "e", "n", "n", "o", "d">>
episode_word == <<"e", "p", "i", "s", "o", "d", "e">>

(***************************************************************************)
(* Title heuristics                                                        *)
(***************************************************************************)
\* re.match(r'^(?:Pennod|Episode)\s*(\d+)', title)
extract_episode_number_from_title(t) ==
    LET after == IF StartsWithAt(t, 1, Pennod) THEN Len(Pennod) + 1
                 ELSE IF StartsWithAt(t, 1, Episode) THEN Len(Episode) + 1
                 ELSE 0
    IN  IF after = 0 THEN None
        ELSE LET j == SpaceRunEnd(t, after)
                 d == DigitRunEnd(t, j)
             IN  IF d > j THEN ToInt(SubSeq(t, j, d - 1)) ELSE None

\* the same match with the separator class required at least once
extract_episode_number_from_text_sep_required(text) ==
    LET d == DigitRunEnd(text, 1)
        e == SepRunEnd(text, d)
    IN  IF d > 1 /\ e > d
        THEN <<ToInt(SubSeq(text, 1, d - 1)), Strip(SubSeq(text, e, Len(text)))>>
        ELSE <<None, text>>

\* re.match(r'^(\d+)[;:,\-_\.\s]*', text), then re.sub of the same pattern
\* and strip()
extract_episode_number_from_text(text) ==
    LET d == DigitRunEnd(text, 1)
        e == SepRunEnd(text, d)
    IN  IF d > 1
        THEN <<ToInt(SubSeq(text, 1, d - 1)), Strip(SubSeq(text, e, Len(text)))>>
        ELSE <<None, text>>

\* re.search(r'\bE(\d+)\b', text): leftmost E at a word boundary whose whole
\* digit run ends at a word boundary
extract_episode_number(text) ==
    LET hits == {i \in 1..Len(text) :
                    /\ text[i] = "E"
                    /\ (i = 1 \/ ~IsWordChar(text[i - 1]))
                    /\ DigitRunEnd(text, i + 1) > i + 1
                    /\ LET d == DigitRunEnd(text, i + 1)
                       IN  d = Len(text) + 1 \/ ~IsWordChar(text[d])}
    IN  IF hits = {} THEN None
        ELSE LET i == CHOOSE h \in hits : \A m \in hits : h <= m
             IN  ToInt(SubSeq(text, i + 1, DigitRunEnd(text, i + 1) - 1))

\* position of the digits of [_-](?:pennod|episode)_?(\d+) when the pattern
\* matches at i, 0 otherwise
FilenameDigitsAt(f, i) ==
    LET low   == LowerStr(f)
        after == IF StartsWithAt(low, i + 1, pennod) THEN i + 1 + Len(pennod)
                 ELSE IF StartsWithAt(low, i + 1, episode_word)
                      THEN i + 1 + Len(episode_word)
                 ELSE 0
        k     == IF after # 0 /\ after <= Len(f) /\ f[after] = "_"
                 THEN after + 1 ELSE after
    IN  IF f[i] \in {"_", "-"} /\ after # 0 /\ DigitRunEnd(f, k) > k
        THEN k ELSE 0

\* re.search(r'[_-](?:pennod|episode)_?(\d+)', filename, re.IGNORECASE)
extract_episode_number_from_filename(f) ==
    LET hits == {i \in 1..Len(f) : FilenameDigitsAt(f, i) # 0}
    IN  IF hits = {} THEN None
        ELSE LET i == CHOOSE h \in hits : \A m \in hits : h <= m
                 k == FilenameDigitsAt(f, i)
             IN  ToInt(SubSeq(f, k, DigitRunEnd(f, k) - 1))

\* re.search(r'_P(\d+)', thumbnail_url)
extract_episode_number_from_thumbnail(u) ==
    LET hits == {i \in 1..Len(u) :
                    /\ StartsWithAt(u, i, <<"_", "P">>)
                    /\ DigitRunEnd(u, i + 2) > i + 2}
    IN  IF hits = {} THEN None
        ELSE LET i == CHOOSE h \in hits : \A m \in hits : h <= m
             IN  ToInt(SubSeq(u, i + 2, DigitRunEnd(u, i + 2) - 1))

\* the chain with `if not episode_number` in place of `is None`
episode_number_chain_truthy(pt, m, th) ==
    LET unset(x) == x = None \/ x = 0
        e1 == extract_episode_number_from_title(pt)
        s2 == IF unset(e1) THEN extract_episode_number_from_text(pt)
              ELSE <<e1, pt>>
        e3 == IF unset(s2[1]) THEN extract_episode_number(m) ELSE s2[1]
        e4 == IF unset(e3) THEN extract_episode_number_from_thumbnail(th) ELSE e3
        e5 == IF unset(e4) /\ m # <<>>
              THEN extract_episode_number_from_filename(m) ELSE e4
    IN  <<e5, s2[2]>>

\* _extract_episode_info, the episode-number part: returns the pair
\* (episode_number, programme_title)
episode_number_chain(pt, m, th) ==
    LET e1 == extract_episode_number_from_title(pt)
        s2 == IF e1 = None THEN extract_episode_number_from_text(pt)
              ELSE <<e1, pt>>
        e3 == IF s2[1] = None THEN extract_episode_number(m) ELSE s2[1]
        e4 == IF e3 = None THEN extract_episode_number_from_thumbnail(th) ELSE e3
        e5 == IF e4 = None /\ m # <<>>
              THEN extract_episode_number_from_filename(m) ELSE e4
    IN  <<e5, s2[2]>>

(***************************************************************************)
(* Date normalizer                                                         *)
(***************************************************************************)
\* WELSH_MONTHS, the mapped value read as a number
WELSH_MONTHS ==
    [Ionawr |-> 1, Chwefror |-> 2, Mawrth |-> 3, Ebrill |-> 4, Mai |-> 5,
     Mehefin |-> 6, Gorffennaf |-> 7, Awst |-> 8, Medi |-> 9, Hydref |-> 10,
     Tachwedd |-> 11, Rhagfyr |-> 12]

IsLeap(y) == (y % 4 = 0 /\ y % 100 # 0) \/ y % 400 = 0

DaysInMonth(y, m) ==
    IF m = 2 THEN (IF IsLeap(y) THEN 29 ELSE 28)
    ELSE IF m \in {4, 6, 9, 11} THEN 30 ELSE 31

\* days since 1970-01-01 of a proleptic Gregorian date
DaysFromCivil(y, m, d) ==
    LET yy  == IF m <= 2 THEN y - 1 ELSE y
        era == yy \div 400
        yoe == yy - era * 400
        mp  == (m + 9) % 12
        doy == (153 * mp + 2) \div 5 + d - 1
        doe == yoe * 365 + yoe \div 4 - yoe \div 100 + doy
    IN  era * 146097 + doe - 719468

\* the Gregorian date <<y, m, d>> of a day count since 1970-01-01
CivilFromDays(z) ==
    LET zz  == z + 719468
        era == zz \div 146097
        doe == zz - era * 146097
        yoe == (doe - doe \div 1460 + doe \div 36524 - doe \div 146096) \div 365
        doy == doe - (365 * yoe + yoe \div 4 - yoe \div 100)
        mp  == (5 * doy + 2) \div 153
        d   == doy - (153 * mp + 2) \div 5 + 1
        m   == IF mp < 10 THEN mp + 3 ELSE mp - 9
        y   == yoe + era * 400
    IN  <<IF m <= 2 THEN y + 1 ELSE y, m, d>>

DigitChar(k) ==
    CASE k = 0 -> "0" [] k = 1 -> "1" [] k = 2 -> "2" [] k = 3 -> "3"
      [] k = 4 -> "4" [] k = 5 -> "5" [] k = 6 -> "6" [] k = 7 -> "7"
      [] k = 8 -> "8" [] k = 9 -> "9"

\* zero-padded decimal rendering of strftime (%Y: 4 digits, %m, %d: 2)
RECURSIVE Pad(_, _)
Pad(n, w) ==
    IF w = 0 THEN <<>> ELSE Append(Pad(n \div 10, w - 1), DigitChar(n % 10))

\* convert_welsh_date and parse_welsh_date: split into day, month, year, map
\* the month, strptime the result, and timestamp() the naive datetime, which
\* reads it in the host's local time zone (UTC + offset hours)
parse_welsh_date(tokens, offset) ==
    IF Len(tokens) # 3 THEN [ok |-> FALSE, err |-> "ValueError", timestamp |-> 0]
    ELSE IF tokens[2] \notin DOMAIN WELSH_MONTHS
    THEN [ok |-> FALSE, err |-> "KeyError", timestamp |-> 0]
    ELSE LET day   == tokens[1]
             month == WELSH_MONTHS[tokens[2]]
             year  == tokens[3]
         IN  IF day < 1 \/ day > DaysInMonth(year, month)
             THEN [ok |-> FALSE, err |-> "ValueError", timestamp |-> 0]
             ELSE [ok |-> TRUE, err |-> "",
                   timestamp |-> DaysFromCivil(year, month, day) * 86400
                                 - offset * 3600]

\* format_date: utcfromtimestamp(timestamp).strftime('%Y%m%d')
format_date(timestamp) ==
    LET c == CivilFromDays(timestamp \div 86400)
    IN  Pad(c[1], 4) \o Pad(c[2], 2) \o Pad(c[3], 2)

(***************************************************************************)
(* Inputs of the heuristics and of the date normalizer                     *)
(***************************************************************************)
MaxTextLen == 4
MaxTailLen == 2

TextAlphabet == {"0", "1", ".", " ", "D"}

SeqsUpTo(A, n) == UNION {[1..k -> A] : k \in 0..n}

Titles ==
    SeqsUpTo(TextAlphabet, MaxTextLen)
    \cup {w \o x : w \in {Pennod, Episode, pennod},
                   x \in SeqsUpTo({"0", "2", " "}, MaxTailLen)}

Mpgs ==
    { <<>>,
      <<"E", "3">>,
      <<"a", "_", "E", "3">>,
      <<"a", "-", "E", "3", "D">>,
      <<"a", "-", "E", "3", ".", "t", "s">> ,
      <<"a", "-">> \o pennod \o <<"_", "4">>,
      <<"a", "_">> \o Episode \o <<"5">>,
      <<"a">> \o pennod \o <<"4">> }

Thumbs ==
    { <<>>,
      <<"t", "_", "P", "6">>,
      <<"t", "_", "p", "6">>,
      <<"t", "_", "P", "x">> }

Years == {2020, 2021}
Days == {1, 15, 28, 29, 30, 31}
MonthNames == DOMAIN WELSH_MONTHS \cup {"January"}
TZOffsets == {-5, 0, 1}

WelshDates ==
    {<<d, m, y>> : d \in Days, m \in MonthNames, y \in Years}
    \cup {<<15, "Ionawr">>}

NoText == <<<<>>, <<>>>>
NoDate == [ok |-> FALSE, err |-> "", timestamp |-> 0, compact |-> <<>>]

(***************************************************************************)
(* SpecText: the heuristics applied to one episode's strings               *)
(***************************************************************************)
ApplyFromText ==
    /\ tpc = "start"
    /\ textOut' = extract_episode_number_from_text(title)
    /\ tpc' = "text"
    /\ UNCHANGED <<title, mpg, thumb, chainOut, dateVars, tz, resVars>>

ApplyChain ==
    /\ tpc = "start"
    /\ chainOut' = episode_number_chain(title, mpg, thumb)
    /\ tpc' = "chain"
    /\ UNCHANGED <<title, mpg, thumb, textOut, dateVars, tz, resVars>>

(***************************************************************************)
(* SpecDate: parse_welsh_date followed by format_date                      *)
(***************************************************************************)
ParseAndFormat ==
    /\ dpc = "start"
    /\ LET p == parse_welsh_date(welsh_date, tz)
       IN  dateOut' = [ok |-> p.ok, err |-> p.err, timestamp |-> p.timestamp,
                       compact |-> IF p.ok THEN format_date(p.timestamp)
                                   ELSE <<>>]
    /\ dpc' = "done"
    /\ UNCHANGED <<welsh_date, textVars, tz, resVars>>

(***************************************************************************)
(* Upstream payloads seen by the resolvers                                 *)
(***************************************************************************)
MaxProgs == 2

ProgIds == {1, 2, 3}
SeriesIds == {7}

\* the episode dictionaries the catalogue serves, by programme id; the
\* fields are the ones _extract_episode_info reads
Catalogue(pid) ==
    IF pid = 1
    THEN [id |-> 1, series_id |-> 7, series_title |-> "Rownd a Rownd",
          programme_title |-> Pennod \o <<" ", "2">>,
          mpg |-> <<"a", "-", "E", "3", ".", "t", "s">>,
          thumbnail_url |-> <<"t", "_", "P", "6">>,
          last_tx |-> <<1, "Ionawr", 2021>>,
          clic_aired |-> <<15, "Mawrth", 2021>>]
    ELSE IF pid = 2
    THEN [id |-> 2, series_id |-> 7, series_title |-> "Rownd a Rownd",
          programme_title |-> <<"0", ".", " ", "D">>,
          mpg |-> <<"E", "3">>,
          thumbnail_url |-> <<>>,
          last_tx |-> <<>>,
          clic_aired |-> <<1, "Mawrth", 2021>>]
    ELSE [id |-> 3, series_id |-> 7, series_title |-> "Rownd a Rownd",
          programme_title |-> <<>>,
          mpg |-> <<>>,
          thumbnail_url |-> <<>>,
          last_tx |-> <<31, "Ebrill", 2021>>,
          clic_aired |-> <<>>]

\* programme lists: distinct programmes, in catalogue order
Lists ==
    {l \in SeqsUpTo(ProgIds, MaxProgs) :
        \A i, j \in 1..Len(l) : i < j => l[i] < l[j]}

\* a JSON payload with the two programme lists; present = FALSE when the
\* fatal _download_json raised instead of returning
Absent == [present |-> FALSE, full_prog_details |-> <<>>,
           other_progs_in_series |-> <<>>]

SeriesPayloads ==
    {[present |-> TRUE, full_prog_details |-> f, other_progs_in_series |-> o] :
        f \in Lists, o \in Lists} \cup {Absent}

ProgrammePayloads(pid) ==
    {[present |-> TRUE, full_prog_details |-> f, other_progs_in_series |-> o] :
        f \in {<<>>, <<pid>>}, o \in Lists} \cup {Absent}

\* the player configuration: absent / empty, or a dictionary whose filename
\* may be missing
ConfigOutcomes ==
    {[present |-> FALSE, filename |-> ""],
     [present |-> TRUE, filename |-> ""],
     [present |-> TRUE, filename |-> "asset.mp4"]}

Regions == <<"WW", "UK">>
ManifestKinds == <<"hls", "dash", "fvp", "dvb">>

\* one region's streaming_urls: falsy (failed or empty), or a dictionary;
\* kinds are the manifests whose extraction yields a format
RegionResponses ==
    {[ok |-> FALSE, kinds |-> {}]}
    \cup {[ok |-> TRUE, kinds |-> K] :
            K \in {{}, {"hls"}, {"dash", "dvb"}, {"hls", "dash", "fvp", "dvb"}}}

NoRef == [ie |-> "none", id |-> 0, depth |-> 0]
NoConfig == [present |-> FALSE, filename |-> ""]

Blank ==
    [kind |-> "none", id |-> 0, episode_id |-> 0, series_id |-> 0,
     episode_number |-> None, formats |-> <<>>, release_date |-> <<>>,
     modified_date |-> <<>>, entries |-> <<>>, title |-> "", err |-> "",
     episode |-> 0]

Failure(e) == [Blank EXCEPT !.kind = "error", !.err = e]

(***************************************************************************)
(* The three resolvers                                                     *)
(***************************************************************************)
\* self.url_result(..., ie=S4CClicProgrammeIndividualIE.ie_key(), video_id=id)
url_result(pid) == [ie |-> "ProgrammeIndividual", id |-> pid]

\* try_get(series_data, lambda x: x['full_prog_details'][0]['series_title'], str)
playlist_title(sd) ==
    IF sd.full_prog_details = <<>> THEN ""
    ELSE Catalogue(sd.full_prog_details[1]).series_title

\* the playlist of the Series resolver from the other programmes only
series_playlist_other_only(sid, sd) ==
    [Blank EXCEPT !.kind = "playlist",
                  !.entries = [k \in 1..Len(sd.other_progs_in_series) |->
                                  url_result(sd.other_progs_in_series[k])],
                  !.id = sid,
                  !.title = playlist_title(sd)]

\* S4CClicSeriesIE: entries and playlist_result
series_playlist(sid, sd) ==
    LET all == sd.full_prog_details \o sd.other_progs_in_series
    IN  [Blank EXCEPT !.kind = "playlist",
                      !.entries = [k \in 1..Len(all) |-> url_result(all[k])],
                      !.id = sid,
                      !.title = playlist_title(sd)]

\* the playlist of the Programme resolver identified by the programme
programme_playlist_own_id(pid, sid, sd) ==
    LET all == sd.full_prog_details \o sd.other_progs_in_series
    IN  [Blank EXCEPT !.kind = "playlist",
                      !.entries = [k \in 1..Len(all) |-> url_result(all[k])],
                      !.id = pid,
                      !.title = playlist_title(sd)]

\* S4CClicProgrammeIE: entries and playlist_result
programme_playlist(pid, sid, sd) ==
    LET all == sd.full_prog_details \o sd.other_progs_in_series
    IN  [Blank EXCEPT !.kind = "playlist",
                      !.entries = [k \in 1..Len(all) |-> url_result(all[k])],
                      !.id = sid,
                      !.title = playlist_title(sd)]

\* a call of _extract_episode_info(episode, programme_id)
Build(ep, pid) == [Blank EXCEPT !.kind = "build", !.episode = ep, !.id = pid]

\* the Series resolver expanding whatever the sibling list holds
series_always_expands(sid, sd) ==
    IF ~sd.present THEN Failure("DownloadError")
    ELSE series_playlist(sid, sd)

\* S4CClicSeriesIE._extract_video_info up to its return or its call of the
\* builder
series_extract_video_info(sid, sd) ==
    IF ~sd.present THEN Failure("DownloadError")
    ELSE IF sd.other_progs_in_series = <<>>
    THEN (IF sd.full_prog_details = <<>> THEN Failure("LookupError")
          ELSE Build(sd.full_prog_details[1], sid))
    ELSE series_playlist(sid, sd)

\* S4CClicProgrammeIE._extract_video_info up to its return or its call of
\* the builder
programme_extract_video_info(pid, pd, sd) ==
    IF ~pd.present THEN Failure("DownloadError")
    ELSE IF pd.full_prog_details = <<>> THEN Failure("LookupError")
    ELSE IF pd.other_progs_in_series = <<>>
    THEN Build(pd.full_prog_details[1], pid)
    ELSE IF ~sd.present THEN Failure("DownloadError")
    ELSE programme_playlist(pid, Catalogue(pd.full_prog_details[1]).series_id, sd)

\* the individual resolver expanding like the series-aware one
individual_expands(pid, pd) ==
    IF ~pd.present THEN Failure("DownloadError")
    ELSE IF pd.full_prog_details = <<>> THEN Failure("LookupError")
    ELSE IF pd.other_progs_in_series = <<>>
    THEN Build(pd.full_prog_details[1], pid)
    ELSE series_playlist(Catalogue(pd.full_prog_details[1]).series_id, pd)

\* S4CClicProgrammeIndividualIE._extract_video_info up to its call of the
\* builder
individual_extract_video_info(pid, pd) ==
    IF ~pd.present THEN Failure("DownloadError")
    ELSE IF pd.full_prog_details = <<>> THEN Failure("LookupError")
    ELSE Build(pd.full_prog_details[1], pid)

(***************************************************************************)
(* The episode record builder                                              *)
(***************************************************************************)
\* the configuration check that forgets the filename
config_error_data_only(c) ==
    IF ~c.present THEN "UpstreamFetchError" ELSE ""

\* `if not config_data` and `if not mpg_filename`: the error raised, "" when
\* the configuration is usable
config_error(c) ==
    IF ~c.present THEN "UpstreamFetchError"
    ELSE IF c.filename = "" THEN "UpstreamFetchError"
    ELSE ""

\* the four formats.extend(...) of one loop iteration
region_formats(region, resp) ==
    LET yields == {k \in 1..Len(ManifestKinds) : ManifestKinds[k] \in resp.kinds}
        F[k \in 0..Len(ManifestKinds)] ==
            IF k = 0 THEN <<>>
            ELSE IF k \in yields
                 THEN Append(F[k - 1], [format_id |-> ManifestKinds[k],
                                        region |-> region])
                 ELSE F[k - 1]
    IN  IF resp.ok THEN F[Len(ManifestKinds)] ELSE <<>>

\* the loop leaving at the first region without a response
next_region_break(idx, resp) ==
    IF resp.ok THEN idx + 1 ELSE Len(Regions) + 1

\* `for region in ['WW', 'UK']` with `continue` on a falsy response
next_region(idx, resp) == idx + 1

\* the dates of the record: parse_welsh_date and format_date on a field
\* that is present
date_field(tokens, offset) ==
    IF tokens = <<>> THEN [ok |-> TRUE, compact |-> <<>>]
    ELSE LET p == parse_welsh_date(tokens, offset)
         IN  IF p.ok THEN [ok |-> TRUE, compact |-> format_date(p.timestamp)]
             ELSE [ok |-> FALSE, compact |-> <<>>]

\* _extract_episode_info from `if not formats` to the returned dictionary
assemble(ep, pid, epnum, fmts, offset) ==
    LET e   == Catalogue(ep)
        rel == date_field(e.last_tx, offset)
        mod == date_field(e.clic_aired, offset)
    IN  IF fmts = <<>> THEN Failure("StreamingUnavailableError")
        ELSE IF ~rel.ok \/ ~mod.ok THEN Failure("DateError")
        ELSE [Blank EXCEPT !.kind = "record", !.id = pid, !.episode_id = pid,
                           !.series_id = e.series_id,
                           !.episode_number = epnum,
                           !.formats = fmts,
                           !.release_date = rel.compact,
                           !.modified_date = mod.compact]

(***************************************************************************)
(* Spec: resolving a request and following the child references           *)
(***************************************************************************)
\* the resolver's decision: return it, or enter the builder
Decide(d) ==
    IF d.kind = "build"
    THEN /\ pc' = "build"
         /\ episode' = d.episode
         /\ programme_id' = d.id
         /\ result' = Blank
    ELSE /\ pc' = "returned"
         /\ result' = d
         /\ UNCHANGED <<episode, programme_id>>

SeriesResolve ==
    /\ pc = "resolve" /\ cur.ie = "Series"
    /\ \E sd \in SeriesPayloads :
          /\ series_data' = sd
          /\ Decide(series_extract_video_info(cur.id, sd))
    /\ UNCHANGED <<pending, cur, programme_data, episode_number, config_data,
                   regionIdx, responses, formats, textVars, dateVars, tz>>

ProgrammeResolve ==
    /\ pc = "resolve" /\ cur.ie = "Programme"
    /\ \E pd \in ProgrammePayloads(cur.id), sd \in SeriesPayloads :
          /\ programme_data' = pd
          \* the series details are fetched only past the sibling test
          /\ series_data' = IF /\ pd.present
                               /\ pd.full_prog_details # <<>>
                               /\ pd.other_progs_in_series # <<>>
                            THEN sd ELSE Absent
          /\ Decide(programme_extract_video_info(cur.id, pd, sd))
    /\ UNCHANGED <<pending, cur, episode_number, config_data,
                   regionIdx, responses, formats, textVars, dateVars, tz>>

IndividualResolve ==
    /\ pc = "resolve" /\ cur.ie = "ProgrammeIndividual"
    /\ \E pd \in ProgrammePayloads(cur.id) :
          /\ programme_data' = pd
          /\ Decide(individual_extract_video_info(cur.id, pd))
    /\ UNCHANGED <<pending, cur, series_data, episode_number, config_data,
                   regionIdx, responses, formats, textVars, dateVars, tz>>

\* _extract_episode_info up to the player-configuration fetch
BuilderStart ==
    /\ pc = "build"
    /\ LET e == Catalogue(episode)
       IN  episode_number' =
               episode_number_chain(e.programme_title, e.mpg, e.thumbnail_url)[1]
    /\ pc' = "config"
    /\ UNCHANGED <<pending, cur, programme_data, series_data, episode,
                   programme_id, config_data, regionIdx, responses, formats,
                   result, textVars, dateVars, tz>>

\* the player-configuration fetch and its two checks
FetchConfig ==
    /\ pc = "config"
    /\ \E c \in ConfigOutcomes :
          /\ config_data' = c
          /\ IF config_error(c) # ""
             THEN /\ pc' = "returned"
                  /\ result' = Failure(config_error(c))
                  /\ UNCHANGED <<regionIdx, responses, formats>>
             ELSE /\ pc' = "regions"
                  /\ regionIdx' = 1
                  /\ responses' = <<>>
                  /\ formats' = <<>>
                  /\ UNCHANGED result
    /\ UNCHANGED <<pending, cur, programme_data, series_data, episode,
                   programme_id, episode_number, textVars, dateVars, tz>>

\* one iteration of the loop of _fetch_and_validate_streaming_urls
FetchRegion ==
    /\ pc = "regions" /\ regionIdx <= Len(Regions)
    /\ \E resp \in RegionResponses :
          /\ responses' = Append(responses, resp)
          /\ formats' = formats \o region_formats(Regions[regionIdx], resp)
          /\ regionIdx' = next_region(regionIdx, resp)
    /\ UNCHANGED <<pending, cur, pc, programme_data, series_data, episode,
                   programme_id, episode_number, config_data, result,
                   textVars, dateVars, tz>>

\* the rest of _extract_episode_info once the loop is over
FinishBuild ==
    /\ pc = "regions" /\ regionIdx > Len(Regions)
    /\ result' = assemble(episode, programme_id, episode_number, formats, tz)
    /\ pc' = "returned"
    /\ UNCHANGED <<pending, cur, programme_data, series_data, episode,
                   programme_id, episode_number, config_data, regionIdx,
                   responses, formats, textVars, dateVars, tz>>

\* the framework takes the result: the entries of a playlist are queued
Return ==
    /\ pc = "returned"
    /\ pending' = pending \o
          (IF result.kind = "playlist"
           THEN [k \in 1..Len(result.entries) |->
                    [ie |-> result.entries[k].ie, id |-> result.entries[k].id,
                     depth |-> cur.depth + 1]]
           ELSE <<>>)
    /\ pc' = "next"
    /\ UNCHANGED <<cur, programme_data, series_data, episode, programme_id,
                   episode_number, config_data, regionIdx, responses, formats,
                   result, textVars, dateVars, tz>>

\* _real_extract on the next child reference, by the extractor it names
Dispatch ==
    /\ pc = "next" /\ pending # <<>>
    /\ cur' = Head(pending)
    /\ pending' = Tail(pending)
    /\ pc' = "resolve"
    /\ programme_data' = Absent
    /\ series_data' = Absent
    /\ episode' = 0
    /\ programme_id' = 0
    /\ episode_number' = None
    /\ config_data' = NoConfig
    /\ regionIdx' = 0
    /\ responses' = <<>>
    /\ formats' = <<>>
    /\ result' = Blank
    /\ UNCHANGED <<textVars, dateVars, tz>>

Requests ==
    {[ie |-> "Series", id |-> s, depth |-> 0] : s \in SeriesIds}
    \cup {[ie |-> k, id |-> p, depth |-> 0] :
            k \in {"Programme", "ProgrammeIndividual"}, p \in ProgIds}

TextOff ==
    /\ title = <<>> /\ mpg = <<>> /\ thumb = <<>>
    /\ textOut = NoText /\ chainOut = NoText /\ tpc = "off"

DateOff == welsh_date = <<>> /\ dateOut = NoDate /\ dpc = "off"

ResOff ==
    /\ pending = <<>> /\ cur = NoRef /\ pc = "off"
    /\ programme_data = Absent /\ series_data = Absent
    /\ episode = 0 /\ programme_id = 0 /\ episode_number = None
    /\ config_data = NoConfig /\ regionIdx = 0 /\ responses = <<>>
    /\ formats = <<>> /\ result = Blank

Init ==
    /\ TextOff /\ DateOff
    /\ tz \in TZOffsets
    /\ pending = <<>> /\ cur \in Requests /\ pc = "resolve"
    /\ programme_data = Absent /\ series_data = Absent
    /\ episode = 0 /\ programme_id = 0 /\ episode_number = None
    /\ config_data = NoConfig /\ regionIdx = 0 /\ responses = <<>>
    /\ formats = <<>> /\ result = Blank

Next ==
    \/ SeriesResolve
    \/ ProgrammeResolve
    \/ IndividualResolve
    \/ BuilderStart
    \/ FetchConfig
    \/ FetchRegion
    \/ FinishBuild
    \/ Return
    \/ Dispatch

Spec == Init /\ [][Next]_vars

InitText ==
    /\ title \in Titles /\ mpg \in Mpgs /\ thumb \in Thumbs
    /\ textOut = NoText /\ chainOut = NoText /\ tpc = "start"
    /\ DateOff /\ tz = 0 /\ ResOff

NextText == ApplyFromText \/ ApplyChain

SpecText == InitText /\ [][NextText]_vars

InitDate ==
    /\ welsh_date \in WelshDates /\ tz \in TZOffsets
    /\ dateOut = NoDate /\ dpc = "start"
    /\ TextOff /\ ResOff

NextDate == ParseAndFormat

SpecDate == InitDate /\ [][NextDate]_vars

(***************************************************************************)
(* Properties                                                              *)
(***************************************************************************)
InBuilder == programme_id # 0
PastConfig == InBuilder /\ pc \in {"regions", "returned", "next"}
BuilderReturned == InBuilder /\ pc \in {"returned", "next"}
ConfigUsable == config_data.present /\ config_data.filename # ""
AllProgs(sd) == sd.full_prog_details \o sd.other_progs_in_series

\* a measure of the work left: the references still queued, the position in
\* the running resolver, and the one expansion the root request may make
Rank ==
    (IF cur.depth = 0 /\ pc # "next" THEN (2 * MaxProgs + 1) * 16 ELSE 0)
    + Len(pending) * 16
    + (CASE pc = "resolve" -> 10
         [] pc = "build" -> 9
         [] pc = "config" -> 8
         [] pc = "regions" -> 7 - regionIdx
         [] pc = "returned" -> 3
         [] pc = "next" -> 1
         [] OTHER -> 0)

C1_Shape ==
    /\ cur.depth <= 1
    /\ \A k \in 1..Len(pending) :
          pending[k].ie = "ProgrammeIndividual" /\ pending[k].depth = 1
    /\ result.kind = "playlist" =>
          /\ cur.ie \in {"Series", "Programme"}
          /\ \A k \in 1..Len(result.entries) :
                result.entries[k].ie = "ProgrammeIndividual"
    /\ (cur.ie = "ProgrammeIndividual" /\ pc \in {"returned", "next"}) =>
          result.kind \in {"record", "error"}

\* C1: a resolution expands at most once: every child reference of a
\* playlist targets the Programme-Individual resolver, that resolver returns
\* a record or fails and never a playlist, whatever its payload, and every
\* step of following the references lowers a natural-number measure, so
\* following them terminates.
C1_ExpandsAtMostOnce == [](C1_Shape) /\ [][Rank' < Rank]_vars

C1_Witness ==
    /\ cur.ie = "ProgrammeIndividual" /\ cur.depth = 1
    /\ programme_data.other_progs_in_series # <<>>
    /\ pc = "next" /\ pending = <<>>
    /\ result.kind = "record"

\* C2: the episode number of the chain is the result of the first of the
\* five extractors, in their fixed order, that succeeds, and None (not 0)
\* when none does.
C2_FirstSuccessWins ==
    tpc = "chain" =>
        LET r == << extract_episode_number_from_title(title),
                    extract_episode_number_from_text(title)[1],
                    extract_episode_number(mpg),
                    extract_episode_number_from_thumbnail(thumb),
                    extract_episode_number_from_filename(mpg) >>
            won == {k \in 1..5 : r[k] # None}
        IN  IF won = {} THEN chainOut[1] = None /\ chainOut[1] # 0
            ELSE \E k \in won : /\ \A m \in won : k <= m
                                /\ chainOut[1] = r[k]

C2_Witness ==
    /\ tpc = "chain"
    /\ extract_episode_number_from_title(title) = None
    /\ extract_episode_number_from_text(title)[1] = 0
    /\ extract_episode_number(mpg) = 3
    /\ chainOut[1] = 0

\* C3: a series payload without sibling programmes makes the Series resolver
\* return a single record built from the first listed programme (or fail),
\* never a playlist.
C3_SeriesCollapses ==
    (/\ cur.ie = "Series" /\ series_data.present
     /\ series_data.other_progs_in_series = <<>>
     /\ pc \notin {"resolve"}) =>
        /\ result.kind # "playlist"
        /\ InBuilder => episode = series_data.full_prog_details[1]
        /\ (pc \in {"returned", "next"}) => result.kind \in {"record", "error"}
        /\ result.kind = "record" =>
              LET e == Catalogue(series_data.full_prog_details[1])
              IN  /\ result.series_id = e.series_id
                  /\ result.episode_number =
                        episode_number_chain(e.programme_title, e.mpg,
                                             e.thumbnail_url)[1]

C3_Witness ==
    /\ cur.ie = "Series" /\ pc = "returned"
    /\ series_data.present /\ series_data.other_progs_in_series = <<>>
    /\ Len(series_data.full_prog_details) > 1
    /\ result.kind = "record"

\* C4: a series payload with siblings yields a playlist with one entry per
\* programme of the primary and the other list, in that order, each a
\* reference to the Programme-Individual resolver with the programme's id.
C4_PlaylistOfAll ==
    (/\ cur.ie \in {"Series", "Programme"} /\ pc \in {"returned", "next"}
     /\ series_data.present /\ series_data.other_progs_in_series # <<>>) =>
        /\ result.kind = "playlist"
        /\ Len(result.entries) = Len(series_data.full_prog_details)
                                 + Len(series_data.other_progs_in_series)
        /\ \A k \in 1..Len(result.entries) :
              /\ result.entries[k].ie = "ProgrammeIndividual"
              /\ result.entries[k].id = AllProgs(series_data)[k]

C4_Witness ==
    /\ cur.ie = "Series" /\ pc = "returned"
    /\ series_data.full_prog_details # <<>>
    /\ Len(series_data.other_progs_in_series) > 1
    /\ result.kind = "playlist"
    /\ Len(result.entries) = Len(series_data.full_prog_details)
                             + Len(series_data.other_progs_in_series)

ProgrammeReResolved ==
    /\ cur.ie = "Programme" /\ pc \in {"returned", "next"}
    /\ programme_data.present
    /\ programme_data.full_prog_details # <<>>
    /\ programme_data.other_progs_in_series # <<>>
    /\ series_data.present

\* C5 as claimed: the Programme resolver that found siblings returns what
\* the Series resolver returns on the same series payload, for every series
\* payload: the same playlist, and no playlist where the Series resolver
\* builds a single record or fails.
C5_SameAsSeries ==
    ProgrammeReResolved =>
        LET s == series_extract_video_info(
                     Catalogue(programme_data.full_prog_details[1]).series_id,
                     series_data)
        IN  IF s.kind = "playlist" THEN result = s
            ELSE result.kind # "playlist"

\* C5 as amended: the results agree when the series payload itself reports
\* siblings; when it reports none the Programme resolver still returns the
\* playlist of the listed primary programmes.
C5_SameWhenSeriesHasSiblings ==
    ProgrammeReResolved =>
        LET sid == Catalogue(programme_data.full_prog_details[1]).series_id
        IN  IF series_data.other_progs_in_series # <<>>
            THEN result = series_extract_video_info(sid, series_data)
            ELSE /\ result.kind = "playlist"
                 /\ result.id = sid
                 /\ result.entries =
                       [k \in 1..Len(series_data.full_prog_details) |->
                           url_result(series_data.full_prog_details[k])]

C5_Witness ==
    /\ ProgrammeReResolved
    /\ series_data.other_progs_in_series # <<>>
    /\ series_data.full_prog_details # <<>>
    /\ result.kind = "playlist"

\* C6: once the player configuration came back without data or without a
\* filename, the build has failed with the upstream-fetch error: the result
\* is that error alone, no region was fetched and no record field is set.
C6_ConfigFailureIsFatal ==
    (PastConfig /\ ~ConfigUsable) =>
        /\ pc \in {"returned", "next"}
        /\ result = Failure("UpstreamFetchError")
        /\ responses = <<>> /\ formats = <<>>

C6_Witness ==
    /\ cur.ie = "Series" /\ pc = "returned"
    /\ config_data.present /\ config_data.filename = ""
    /\ result.err = "UpstreamFetchError"

\* the formats of the regions that answered, in region and manifest order
MergedFormats(rs) ==
    LET slots == [k \in 1..(Len(rs) * Len(ManifestKinds)) |->
                    [r |-> ((k - 1) \div Len(ManifestKinds)) + 1,
                     m |-> ((k - 1) % Len(ManifestKinds)) + 1]]
        Yielded(x) == rs[x.r].ok /\ ManifestKinds[x.m] \in rs[x.r].kinds
        kept == SelectSeq(slots, Yielded)
    IN  [k \in 1..Len(kept) |->
            [format_id |-> ManifestKinds[kept[k].m], region |-> Regions[kept[k].r]]]

\* C7: a failed or empty region response neither aborts the build nor keeps
\* the other region from being tried; the formats are those of every region
\* that answered, and the build fails with the streaming-unavailable error
\* exactly when there are none.
C7_RegionsMerged ==
    (PastConfig /\ ConfigUsable) =>
        /\ formats = MergedFormats(responses)
        /\ pc = "regions" => Len(responses) = regionIdx - 1
        /\ BuilderReturned =>
              /\ Len(responses) = Len(Regions)
              /\ (result = Failure("StreamingUnavailableError")) <=> (formats = <<>>)
              /\ result.kind = "record" => result.formats = formats

C7_Witness ==
    /\ BuilderReturned /\ pc = "returned"
    /\ Len(responses) = Len(Regions)
    /\ ~responses[1].ok /\ responses[2].ok
    /\ result.kind = "record"
    /\ Len(result.formats) = Len(ManifestKinds)

\* C8 as claimed: for a valid Welsh date the compact date has 8 digits, the
\* first four the input year and the middle two the mapped month, whatever
\* the local time-zone offset of the host.
C8_RoundTrip ==
    (/\ dpc = "done" /\ Len(welsh_date) = 3
     /\ welsh_date[2] \in DOMAIN WELSH_MONTHS
     /\ welsh_date[1] >= 1
     /\ welsh_date[1] <= DaysInMonth(welsh_date[3], WELSH_MONTHS[welsh_date[2]])) =>
        /\ dateOut.ok
        /\ Len(dateOut.compact) = 8
        /\ ToInt(SubSeq(dateOut.compact, 1, 4)) = welsh_date[3]
        /\ ToInt(SubSeq(dateOut.compact, 5, 6)) = WELSH_MONTHS[welsh_date[2]]

\* C9 as claimed: the identifier a resolver passes to the builder, which
\* becomes the record's id and episode id, is the programme id of the
\* episode payload it passes.
C9_BuilderGetsProgrammeId ==
    InBuilder =>
        /\ programme_id = Catalogue(episode).id
        /\ result.kind = "record" =>
              /\ result.id = Catalogue(episode).id
              /\ result.episode_id = Catalogue(episode).id

\* C10 as claimed: a number is returned only when the leading digits are
\* followed by at least one separator; every other text comes back
\* unchanged with no number.
C10_SeparatorRequired ==
    tpc = "text" =>
        LET d == DigitRunEnd(title, 1)
        IN  IF d > 1 /\ d <= Len(title) /\ IsSepChar(title[d])
            THEN textOut = << ToInt(SubSeq(title, 1, d - 1)),
                              Strip(SubSeq(title, SepRunEnd(title, d), Len(title))) >>
            ELSE textOut = <<None, title>>

\* C10 as amended: a number is returned whenever the text starts with a
\* digit, with or without separators after the digits; the digits and the
\* separators that follow them are removed and the rest is trimmed; a text
\* that does not start with a digit comes back unchanged with no number.
C10_LeadingDigits ==
    tpc = "text" =>
        IF title # <<>> /\ IsDigit(title[1])
        THEN \E d \in 1..Len(title), e \in 1..Len(title) :
                /\ d <= e
                /\ \A k \in 1..d : IsDigit(title[k])
                /\ d < Len(title) => ~IsDigit(title[d + 1])
                /\ \A k \in (d + 1)..e : IsSepChar(title[k])
                /\ e < Len(title) => ~IsSepChar(title[e + 1])
                /\ textOut = << ToInt(SubSeq(title, 1, d)),
                                Strip(SubSeq(title, e + 1, Len(title))) >>
        ELSE textOut = <<None, title>>

C10_Witness ==
    /\ tpc = "text"
    /\ Len(title) > 1 /\ IsDigit(title[1]) /\ title[2] = "D"
    /\ textOut[1] = ToInt(<<title[1]>>)
    /\ textOut[2] = SubSeq(title, 2, Len(title))

====
